---- MODULE Spec2Model ----
(***************************************************************************)
(* Model of the persistent conversation bot (main.go): the per-user        *)
(* dialogue state machine (UserState), the file storage (Storage) and the  *)
(* dispatcher (Bot).                                                       *)
(*                                                                         *)
(* A Go string is a sequence of one-character strings, so that             *)
(* strings.ToLower and the JSON string escaping are computed character by  *)
(* character.  ToLower is modelled on ASCII letters only.                  *)
(***************************************************************************)
EXTENDS Integers, Sequences, FiniteSets, TLC

VARIABLES
    sess,      \* SpecSession: the *UserState the events are applied to
    out,       \* SpecSession: the last call on sess and what it returned
    proc,      \* the process: "down", "running", or "fatal" (log.Fatalf in main)
    heap,      \* the allocated UserState objects: address -> UserState
    users,     \* Bot.users: user id -> address of its UserState
    bmu,       \* Bot.mu: the handler holding it, or NoOne
    smu,       \* Storage.mu: the handler holding it, or NoOne
    pc,        \* per handler: its position in handleMessage / save / Save
    loc,       \* per handler: the locals of handleMessage and Save
    disk,      \* the files: [path |-> file, tmp |-> file]
    lastSave,  \* what the last finished Storage.Save returned: "none", "ok", "error"
    nEvents,   \* messages dispatched so far (bounded by MaxEvents)
    nKills     \* process kills so far (bounded by MaxKills)

vars == <<sess, out, proc, heap, users, bmu, smu, pc, loc, disk, lastSave, nEvents, nKills>>

botVars == <<proc, heap, users, bmu, smu, pc, loc, disk, lastSave, nEvents, nKills>>

sessVars == <<sess, out>>

----------------------------------------------------------------------------
(* Bounds *)

\* facts a session may hold in SpecSession
MaxFacts == 2

\* messages dispatched in one behaviour of the bot specifications
MaxEvents == 3

\* process kills in one behaviour of the bot specifications
MaxKills == 1

----------------------------------------------------------------------------
(* Strings *)

UpperLetters ==
    <<"A","B","C","D","E","F","G","H","I","J","K","L","M",
      "N","O","P","Q","R","S","T","U","V","W","X","Y","Z">>

LowerLetters ==
    <<"a","b","c","d","e","f","g","h","i","j","k","l","m",
      "n","o","p","q","r","s","t","u","v","w","x","y","z">>

LowerChar(c) ==
    IF \E i \in 1..Len(UpperLetters) : UpperLetters[i] = c
    THEN LowerLetters[CHOOSE i \in 1..Len(UpperLetters) : UpperLetters[i] = c]
    ELSE c

\* strings.ToLower
ToLower(s) == [i \in 1..Len(s) |-> LowerChar(s[i])]

EmptyStr == <<>>

tDone == <<"D","o","n","e">>

tdone == <<"d","o","n","e">>

tAge == <<"A","g","e">>

tAGE == <<"A","G","E">>

tFavouriteColour ==
    <<"F","a","v","o","u","r","i","t","e"," ","c","o","l","o","u","r">>

tNumberOfSiblings ==
    <<"N","u","m","b","e","r"," ","o","f"," ","s","i","b","l","i","n","g","s">>

tSomethingElse ==
    <<"S","o","m","e","t","h","i","n","g"," ","e","l","s","e",".",".",".">>

\* a text with surrounding blanks
tBlue == <<" ","B","l","u","e"," ">>

\* a text holding characters the JSON encoder escapes
tQuoted == <<"\"","R","&","B","\"">>

\* the preset category labels of handleChoosing
PresetLabels == {tAge, tFavouriteColour, tNumberOfSiblings}

----------------------------------------------------------------------------
(* Replies: a reply is the concatenation of literal pieces of the source   *)
(* and of texts substituted into them.                                     *)

Lit(s) == [lit |-> s, txt |-> EmptyStr]

Txt(t) == [lit |-> "", txt |-> t]

\* the permutations of a finite set, as sequences
Perms(S) ==
    {p \in [1..Cardinality(S) -> S] : \A i, j \in 1..Cardinality(S) : p[i] = p[j] => i = j}

RECURSIVE Join(_, _)
\* strings.Join over a sequence of replies
Join(parts, sep) ==
    IF Len(parts) = 0 THEN <<>>
    ELSE IF Len(parts) = 1 THEN parts[1]
    ELSE parts[1] \o <<Lit(sep)>> \o Join(Tail(parts), sep)

(* UserState *)

StateChoosing == <<"c","h","o","o","s","i","n","g">>

StateTypingReply == <<"t","y","p","i","n","g","_","r","e","p","l","y">>

StateTypingChoice == <<"t","y","p","i","n","g","_","c","h","o","i","c","e">>

\* the state HandleText leaves after "Done"
StateTerminated == <<>>

NoData == <<>>

NewUserState == [State |-> StateChoosing, Data |-> NoData, Choice |-> EmptyStr]

\* data[k] = v on a Go map
MapPut(data, k, v) == [x \in (DOMAIN data) \cup {k} |-> IF x = k THEN v ELSE data[x]]

\* factsToStr: the strings it can return; a Go map is ranged over in an
\* unspecified order, which may differ from one call to the next
factsToStr(data) ==
    IF DOMAIN data = {} THEN {<<Lit("\n\n")>>}
    ELSE {<<Lit("\n")>>
            \o Join([i \in 1..Len(p) |-> <<Txt(p[i]), Lit(" - "), Txt(data[p[i]])>>], "\n")
            \o <<Lit("\n")>> : p \in Perms(DOMAIN data)}

\* what a call on a *UserState yields: the object afterwards and the returned values
Result(u, reply, withKeyboard, done) ==
    [u |-> u, reply |-> reply, withKeyboard |-> withKeyboard, done |-> done]

\* mutant: the greet starts the session over, dropping its facts
MutHandleCommandStartFresh(u) ==
    {Result([u EXCEPT !.State = StateChoosing, !.Data = NoData],
            <<Lit("Hi! My name is Doctor Botter."),
              Lit(" I will hold a more complex conversation with you. Why don't you tell me something about yourself?")>>,
            TRUE, FALSE)}

\* HandleCommandStart: the possible results (one per order of the keys)
HandleCommandStart(u) ==
    IF DOMAIN u.Data # {}
    THEN {Result([u EXCEPT !.State = StateChoosing],
                 <<Lit("Hi! My name is Doctor Botter."), Lit(" You already told me your ")>>
                   \o Join([i \in 1..Len(p) |-> <<Txt(p[i])>>], ", ")
                   \o <<Lit(". Why don't you tell me something more about yourself? Or change anything I already know.")>>,
                 TRUE, FALSE) : p \in Perms(DOMAIN u.Data)}
    ELSE {Result([u EXCEPT !.State = StateChoosing],
                 <<Lit("Hi! My name is Doctor Botter."),
                   Lit(" I will hold a more complex conversation with you. Why don't you tell me something about yourself?")>>,
                 TRUE, FALSE)}

\* HandleShowData: the possible results
HandleShowData(u) ==
    {Result(u, <<Lit("This is what you already told me: ")>> \o f, FALSE, FALSE) :
        f \in factsToStr(u.Data)}

\* mutant: a preset category that already has a value is opened for editing
MutHandleChoosingEditsKnown(u, text) ==
    IF text \in PresetLabels
    THEN LET choice == ToLower(text)
             u1 == [u EXCEPT !.Choice = choice, !.State = StateTypingReply]
         IN  IF choice \in DOMAIN u1.Data
             THEN {Result(u1, <<Lit("Your "), Txt(choice),
                                Lit("? I already know the following about that: "),
                                Txt(u1.Data[choice])>>, FALSE, FALSE)}
             ELSE {Result(u1, <<Lit("Your "), Txt(choice),
                                Lit("? Yes, I would love to hear about that!")>>, FALSE, FALSE)}
    ELSE IF text = tSomethingElse
    THEN {Result([u EXCEPT !.State = StateTypingChoice],
                 <<Lit("Alright, please send me the category first, for example \"Most impressive skill\"")>>,
                 FALSE, FALSE)}
    ELSE {Result(u, <<Lit("Please choose one of the options on the keyboard or type \"Done\".")>>,
                 TRUE, FALSE)}

handleChoosing(u, text) ==
    IF text \in PresetLabels
    THEN LET choice == ToLower(text)
             u1 == [u EXCEPT !.Choice = choice]
         IN  IF choice \in DOMAIN u1.Data
             THEN {Result(u1, <<Lit("Your "), Txt(choice),
                                Lit("? I already know the following about that: "),
                                Txt(u1.Data[choice])>>, FALSE, FALSE)}
             ELSE {Result([u1 EXCEPT !.State = StateTypingReply],
                          <<Lit("Your "), Txt(choice),
                            Lit("? Yes, I would love to hear about that!")>>, FALSE, FALSE)}
    ELSE IF text = tSomethingElse
    THEN {Result([u EXCEPT !.State = StateTypingChoice],
                 <<Lit("Alright, please send me the category first, for example \"Most impressive skill\"")>>,
                 FALSE, FALSE)}
    ELSE {Result(u, <<Lit("Please choose one of the options on the keyboard or type \"Done\".")>>,
                 TRUE, FALSE)}

\* mutant: the category name is kept as it was typed
MutHandleTypingChoiceAsTyped(u, text) ==
    LET u1 == [u EXCEPT !.Choice = text, !.State = StateTypingReply]
    IN  IF text \in DOMAIN u.Data
        THEN {Result(u1, <<Lit("Your "), Txt(text),
                           Lit("? I already know the following about that: "),
                           Txt(u.Data[text])>>, FALSE, FALSE)}
        ELSE {Result(u1, <<Lit("Your "), Txt(text),
                           Lit("? Yes, I would love to hear about that!")>>, FALSE, FALSE)}

handleTypingChoice(u, text) ==
    LET choice == ToLower(text)
        u1 == [u EXCEPT !.Choice = choice, !.State = StateTypingReply]
    IN  IF choice \in DOMAIN u.Data
        THEN {Result(u1, <<Lit("Your "), Txt(choice),
                           Lit("? I already know the following about that: "),
                           Txt(u.Data[choice])>>, FALSE, FALSE)}
        ELSE {Result(u1, <<Lit("Your "), Txt(choice),
                           Lit("? Yes, I would love to hear about that!")>>, FALSE, FALSE)}

\* mutant: the value is stored as it was typed
MutHandleTypingReplyAsTyped(u, text) ==
    IF u.Choice = EmptyStr
    THEN {Result([u EXCEPT !.State = StateChoosing],
                 <<Lit("I am not sure what category this belongs to. Please choose one of the options.")>>,
                 TRUE, FALSE)}
    ELSE LET u1 == [u EXCEPT !.Data = MapPut(u.Data, u.Choice, text),
                             !.Choice = EmptyStr,
                             !.State = StateChoosing]
         IN  {Result(u1, <<Lit("Neat! Just so you know, this is what you already told me:")>>
                           \o f
                           \o <<Lit("You can tell me more, or change your opinion on something.")>>,
                     TRUE, FALSE) : f \in factsToStr(u1.Data)}

handleTypingReply(u, text) ==
    IF u.Choice = EmptyStr
    THEN {Result([u EXCEPT !.State = StateChoosing],
                 <<Lit("I am not sure what category this belongs to. Please choose one of the options.")>>,
                 TRUE, FALSE)}
    ELSE LET category == u.Choice
             value == ToLower(text)
             u1 == [u EXCEPT !.Data = MapPut(u.Data, category, value),
                             !.Choice = EmptyStr,
                             !.State = StateChoosing]
         IN  {Result(u1, <<Lit("Neat! Just so you know, this is what you already told me:")>>
                           \o f
                           \o <<Lit("You can tell me more, or change your opinion on something.")>>,
                     TRUE, FALSE) : f \in factsToStr(u1.Data)}

\* mutant: the terminating keyword is compared without regard to case
MutHandleTextAnyCase(u, text) ==
    IF ToLower(text) = ToLower(tDone)
    THEN {Result([u EXCEPT !.Choice = EmptyStr, !.State = StateTerminated],
                 <<Lit("I learned these facts about you: ")>> \o f \o <<Lit("Until next time!")>>,
                 FALSE, TRUE) : f \in factsToStr(u.Data)}
    ELSE IF u.State = StateChoosing THEN handleChoosing(u, text)
    ELSE IF u.State = StateTypingChoice THEN handleTypingChoice(u, text)
    ELSE IF u.State = StateTypingReply THEN handleTypingReply(u, text)
    ELSE handleChoosing([u EXCEPT !.State = StateChoosing], text)

\* mutant: a session with no state answers with the reminder and stays as it is
MutHandleTextNoStateStays(u, text) ==
    IF text = tDone
    THEN {Result([u EXCEPT !.Choice = EmptyStr, !.State = StateTerminated],
                 <<Lit("I learned these facts about you: ")>> \o f \o <<Lit("Until next time!")>>,
                 FALSE, TRUE) : f \in factsToStr(u.Data)}
    ELSE IF u.State = StateChoosing THEN handleChoosing(u, text)
    ELSE IF u.State = StateTypingChoice THEN handleTypingChoice(u, text)
    ELSE IF u.State = StateTypingReply THEN handleTypingReply(u, text)
    ELSE {Result(u, <<Lit("Please choose one of the options on the keyboard or type \"Done\".")>>,
                 TRUE, FALSE)}

\* HandleText: the possible results
HandleText(u, text) ==
    IF text = tDone
    THEN {Result([u EXCEPT !.Choice = EmptyStr, !.State = StateTerminated],
                 <<Lit("I learned these facts about you: ")>> \o f \o <<Lit("Until next time!")>>,
                 FALSE, TRUE) : f \in factsToStr(u.Data)}
    ELSE IF u.State = StateChoosing THEN handleChoosing(u, text)
    ELSE IF u.State = StateTypingChoice THEN handleTypingChoice(u, text)
    ELSE IF u.State = StateTypingReply THEN handleTypingReply(u, text)
    ELSE handleChoosing([u EXCEPT !.State = StateChoosing], text)

\* the reply markup handleMessage attaches to the outgoing message
UiHint(withKeyboard, removeKeyboard) ==
    IF removeKeyboard THEN "RemoveKeyboard"
    ELSE IF withKeyboard THEN "ShowKeyboard"
    ELSE "None"

----------------------------------------------------------------------------
(* SpecSession: greet, show-facts and text events applied to one fresh     *)
(* session, as the tests of the repository do.                             *)

\* the texts sent to the session; the dispatcher never passes an empty text
SessionTexts == {tDone, tdone, tAge, tAGE, tSomethingElse}

\* texts for the session among which one has blanks around it
BlankTexts == {tAge, tSomethingElse, tBlue}

Call(op, text, before, r) ==
    [op |-> op, text |-> text, before |-> before, reply |-> r.reply,
     withKeyboard |-> r.withKeyboard, done |-> r.done]

NoCall ==
    [op |-> "new", text |-> EmptyStr, before |-> NewUserState, reply |-> <<>>,
     withKeyboard |-> FALSE, done |-> FALSE]

SessInit ==
    /\ sess = NewUserState
    /\ out = NoCall

SessStart ==
    \E r \in HandleCommandStart(sess) :
        /\ sess' = r.u
        /\ out' = Call("start", EmptyStr, sess, r)
        /\ UNCHANGED botVars

SessShowData ==
    \E r \in HandleShowData(sess) :
        /\ sess' = r.u
        /\ out' = Call("show_data", EmptyStr, sess, r)
        /\ UNCHANGED botVars

\* HandleText is called on the session with a text of texts
SessTextOf(texts) ==
    \E text \in texts :
        \E r \in HandleText(sess, text) :
            /\ Cardinality(DOMAIN r.u.Data) <= MaxFacts
            /\ sess' = r.u
            /\ out' = Call("text", text, sess, r)
            /\ UNCHANGED botVars

SessText == SessTextOf(SessionTexts)

SessNext == SessStart \/ SessShowData \/ SessText

SessTextBlank == SessTextOf(BlankTexts)

SessNextBlank == SessStart \/ SessShowData \/ SessTextBlank

----------------------------------------------------------------------------
(* The snapshot: encoding/json on persistedData.  A JSON value is a string *)
(* (the characters between its quotes, escaped), an object (member name -> *)
(* value; member order and indentation are not kept) or null.              *)

JNull == [t |-> "null", body |-> EmptyStr, members |-> <<>>]

JString(body) == [t |-> "string", body |-> body, members |-> <<>>]

JObject(members) == [t |-> "object", body |-> EmptyStr, members |-> members]

Backslash == "\\"

Quote == "\""

\* the \u00XX escapes the encoder emits for <, > and & (escapeHTML)
HtmlEscaped == <<"<", ">", "&">>

HtmlEscapes == << <<"0","0","3","c">>, <<"0","0","3","e">>, <<"0","0","2","6">> >>

EscapeChar(c) ==
    IF c = Quote THEN <<Backslash, Quote>>
    ELSE IF c = Backslash THEN <<Backslash, Backslash>>
    ELSE IF \E i \in 1..Len(HtmlEscaped) : HtmlEscaped[i] = c
    THEN <<Backslash, "u">> \o HtmlEscapes[CHOOSE i \in 1..Len(HtmlEscaped) : HtmlEscaped[i] = c]
    ELSE <<c>>

RECURSIVE Escape(_)
\* the body of the JSON string the encoder writes for s
Escape(s) == IF s = <<>> THEN <<>> ELSE EscapeChar(Head(s)) \o Escape(Tail(s))

\* a result of decoding: the value, or an error
Ok(v) == [err |-> FALSE, val |-> v]

Err == [err |-> TRUE, val |-> <<>>]

RECURSIVE Unescape(_)
\* the string a JSON string body decodes to, or an error
Unescape(b) ==
    IF b = <<>> THEN Ok(<<>>)
    ELSE IF Head(b) = Quote THEN Err
    ELSE IF Head(b) # Backslash
    THEN LET rest == Unescape(Tail(b))
         IN  IF rest.err THEN Err ELSE Ok(<<Head(b)>> \o rest.val)
    ELSE IF Len(b) < 2 THEN Err
    ELSE IF b[2] \in {Quote, Backslash}
    THEN LET rest == Unescape(SubSeq(b, 3, Len(b)))
         IN  IF rest.err THEN Err ELSE Ok(<<b[2]>> \o rest.val)
    ELSE IF b[2] = "u" /\ Len(b) >= 6
            /\ \E i \in 1..Len(HtmlEscapes) : HtmlEscapes[i] = SubSeq(b, 3, 6)
    THEN LET c == HtmlEscaped[CHOOSE i \in 1..Len(HtmlEscapes) : HtmlEscapes[i] = SubSeq(b, 3, 6)]
             rest == Unescape(SubSeq(b, 7, Len(b)))
         IN  IF rest.err THEN Err ELSE Ok(<<c>> \o rest.val)
    ELSE Err

Digits == <<"0","1","2","3","4","5","6","7","8","9">>

RECURSIVE FormatInt(_)
\* strconv.FormatInt(n, 10) for n >= 0: the member name of a user id
FormatInt(n) ==
    IF n < 10 THEN <<Digits[n + 1]>>
    ELSE FormatInt(n \div 10) \o <<Digits[(n % 10) + 1]>>

IsDigit(c) == \E i \in 1..Len(Digits) : Digits[i] = c

DigitVal(c) == (CHOOSE i \in 1..Len(Digits) : Digits[i] = c) - 1

RECURSIVE ParseDigits(_, _)
ParseDigits(s, acc) ==
    IF s = <<>> THEN acc ELSE ParseDigits(Tail(s), acc * 10 + DigitVal(Head(s)))

\* strconv.ParseInt(s, 10, 64) on a member name
ParseInt(s) ==
    IF s # <<>> /\ \A i \in 1..Len(s) : IsDigit(s[i])
    THEN Ok(ParseDigits(s, 0))
    ELSE Err

kUsers == <<"u","s","e","r","s">>

kState == <<"s","t","a","t","e">>

kData == <<"d","a","t","a">>

kChoice == <<"c","h","o","i","c","e">>

EncodeString(s) == JString(Escape(s))

\* a map[string]string
EncodeData(data) ==
    JObject([n \in {Escape(k) : k \in DOMAIN data} |->
                EncodeString(data[CHOOSE k \in DOMAIN data : Escape(k) = n])])

\* mutant: the choice field is not written
MutEncodeUserStateNoChoice(u) ==
    JObject([n \in {kState, kData} |->
                IF n = kState THEN EncodeString(u.State) ELSE EncodeData(u.Data)])

\* a *UserState, by its json tags
EncodeUserState(u) ==
    JObject([n \in {kState, kData, kChoice} |->
                IF n = kState THEN EncodeString(u.State)
                ELSE IF n = kData THEN EncodeData(u.Data)
                ELSE EncodeString(u.Choice)])

\* json.MarshalIndent(&persistedData{Users: users}): the document written
Marshal(coll) ==
    JObject([n \in {kUsers} |->
                JObject([m \in {FormatInt(id) : id \in DOMAIN coll} |->
                            EncodeUserState(coll[CHOOSE id \in DOMAIN coll : FormatInt(id) = m])])])

DecodeString(v) == IF v.t = "string" THEN Unescape(v.body) ELSE Err

\* a string field of a struct: left at "" when the member is missing or null
DecodeField(obj, name) ==
    IF name \notin DOMAIN obj.members \/ obj.members[name].t = "null" THEN Ok(EmptyStr)
    ELSE DecodeString(obj.members[name])

\* a map[string]string; a missing or null member leaves the nil map, which
\* reads as the empty one
DecodeData(obj) ==
    IF kData \notin DOMAIN obj.members \/ obj.members[kData].t = "null" THEN Ok(NoData)
    ELSE LET v == obj.members[kData]
         IN  IF v.t # "object" THEN Err
             ELSE IF \E n \in DOMAIN v.members :
                        Unescape(n).err \/ DecodeString(v.members[n]).err
             THEN Err
             ELSE Ok([k \in {Unescape(n).val : n \in DOMAIN v.members} |->
                        DecodeString(v.members[CHOOSE n \in DOMAIN v.members :
                                                   Unescape(n).val = k]).val])

DecodeUserState(v) ==
    IF v.t # "object" THEN Err
    ELSE LET st == DecodeField(v, kState)
             da == DecodeData(v)
             ch == DecodeField(v, kChoice)
         IN  IF st.err \/ da.err \/ ch.err THEN Err
             ELSE Ok([State |-> st.val, Data |-> da.val, Choice |-> ch.val])

\* the members of "users": a null entry decodes to a nil *UserState, which
\* getUserState treats like a missing entry, so it is left out
DecodeUsers(v) ==
    IF v.t = "null" THEN Ok(<<>>)
    ELSE IF v.t # "object" THEN Err
    ELSE LET present == {n \in DOMAIN v.members : v.members[n].t # "null"}
         IN  IF \E n \in DOMAIN v.members : ParseInt(n).err THEN Err
             ELSE IF \E n \in present : DecodeUserState(v.members[n]).err THEN Err
             ELSE Ok([id \in {ParseInt(n).val : n \in present} |->
                        DecodeUserState(v.members[CHOOSE n \in present :
                                                      ParseInt(n).val = id]).val])

\* json.Unmarshal(b, &data) with data.Users an empty map, then lines 184-186
Unmarshal(doc) ==
    IF doc.t = "null" THEN Ok(<<>>)
    ELSE IF doc.t # "object" THEN Err
    ELSE IF kUsers \notin DOMAIN doc.members THEN Ok(<<>>)
    ELSE DecodeUsers(doc.members[kUsers])

----------------------------------------------------------------------------
(* Files.  A file that is being written, or whose writer was stopped,      *)
(* holds a proper prefix of the bytes (complete = FALSE); no proper prefix *)
(* of a document that Save writes is a JSON text.                          *)

Absent == [exists |-> FALSE, doc |-> JNull, complete |-> FALSE]

Written(doc) == [exists |-> TRUE, doc |-> doc, complete |-> TRUE]

Partial(doc) == [exists |-> TRUE, doc |-> doc, complete |-> FALSE]

\* a snapshot that is present and cannot be parsed
Corrupt == Partial(JNull)

\* mutant: a missing file is an error like any other
MutLoadNotExistIsError(file) ==
    IF ~file.exists THEN Err
    ELSE IF ~file.complete THEN Err
    ELSE Unmarshal(file.doc)

\* mutant: a snapshot that does not parse is taken for an empty one
MutLoadCorruptAsEmpty(file) ==
    IF ~file.exists THEN Ok(<<>>)
    ELSE IF ~file.complete THEN Ok(<<>>)
    ELSE IF Unmarshal(file.doc).err THEN Ok(<<>>)
    ELSE Unmarshal(file.doc)

\* Storage.Load on the file at s.path: the collection, by value, or the error
Load(file) ==
    IF ~file.exists THEN Ok(<<>>)
    ELSE IF ~file.complete THEN Err
    ELSE Unmarshal(file.doc)

----------------------------------------------------------------------------
(* The bot: Bot, Storage and the process around them. *)

\* goroutines that may run handleMessage; Run itself uses one (MainLoop)
Handlers == {"h1", "h2"}

MainLoop == "h1"

NoOne == "none"

UserIds == {7, 42}

\* msg.From == nil
NoFrom == 0

\* texts of the messages sent to the bot
BotTexts == {tAge, tQuoted, tDone}

\* a message: command is msg.Command() when msg.IsCommand(), else ""
Msg(from, command, text) == [from |-> from, command |-> command, text |-> text]

Messages ==
    {Msg(NoFrom, "", tAge), Msg(42, "", tAge)}
    \cup {Msg(7, c, EmptyStr) : c \in {"start", "show_data", "help"}}
    \cup {Msg(7, "", t) : t \in BotTexts \cup {EmptyStr}}

NoLocals ==
    [msg |-> Msg(NoFrom, "", EmptyStr), us |-> 0, seen |-> NewUserState,
     reply |-> <<>>, withKeyboard |-> FALSE, removeKeyboard |-> FALSE,
     bytes |-> JNull, err |-> FALSE]

\* mutant: the bytes are written to s.path itself
MutTmpPathIsPath == "path"

\* tmpPath := s.path + ".tmp"
TmpPath == "tmp"

\* the collection Bot.users denotes: user id -> UserState
Collection == [id \in DOMAIN users |-> heap[users[id]]]

BotInit ==
    /\ proc = "down"
    /\ heap = <<>>
    /\ users = <<>>
    /\ bmu = NoOne
    /\ smu = NoOne
    /\ pc = [h \in Handlers |-> "idle"]
    /\ loc = [h \in Handlers |-> NoLocals]
    /\ disk \in {[path |-> Absent, tmp |-> Absent], [path |-> Corrupt, tmp |-> Absent]}
    /\ lastSave = "none"
    /\ nEvents = 0
    /\ nKills = 0

\* NewBot as main calls it: Load, then the Bot or log.Fatalf
NewBot ==
    /\ proc = "down"
    /\ smu = NoOne
    /\ LET l == Load(disk.path)
           ids == DOMAIN l.val
           addr(id) == Cardinality({j \in ids : j <= id})
       IN  IF l.err
           THEN /\ proc' = "fatal"
                /\ UNCHANGED <<heap, users>>
           ELSE /\ proc' = "running"
                /\ users' = [id \in ids |-> addr(id)]
                /\ heap' = [a \in 1..Cardinality(ids) |->
                              l.val[CHOOSE id \in ids : addr(id) = a]]
    /\ UNCHANGED <<bmu, smu, pc, loc, disk, lastSave, nEvents, nKills, sessVars>>

\* the process is killed: memory and locks are gone, the files stay
Kill ==
    /\ proc = "running"
    /\ nKills < MaxKills
    /\ nKills' = nKills + 1
    /\ proc' = "down"
    /\ heap' = <<>>
    /\ users' = <<>>
    /\ bmu' = NoOne
    /\ smu' = NoOne
    /\ pc' = [h \in Handlers |-> "idle"]
    /\ loc' = [h \in Handlers |-> NoLocals]
    /\ lastSave' = "none"
    /\ UNCHANGED <<disk, nEvents, sessVars>>

\* the messages of the concurrent specification
ConcMessages ==
    {Msg(7, "start", EmptyStr), Msg(7, "", tAge), Msg(42, "", tAge)}

\* handleMessage is entered with a message of msgs (lines 283-289)
DispatchOf(h, msgs) ==
    /\ proc = "running"
    /\ pc[h] = "idle"
    /\ nEvents < MaxEvents
    /\ nEvents' = nEvents + 1
    /\ \E msg \in msgs :
          IF msg.from = NoFrom
          THEN UNCHANGED <<pc, loc>>
          ELSE /\ pc' = [pc EXCEPT ![h] = "getUserState"]
               /\ loc' = [loc EXCEPT ![h].msg = msg]
    /\ UNCHANGED <<proc, heap, users, bmu, smu, disk, lastSave, nKills, sessVars>>

\* getUserState, line 229
GetUserStateLock(h) ==
    /\ pc[h] = "getUserState"
    /\ bmu = NoOne
    /\ bmu' = h
    /\ pc' = [pc EXCEPT ![h] = "getUserStateLocked"]
    /\ UNCHANGED <<proc, heap, users, smu, loc, disk, lastSave, nEvents, nKills, sessVars>>

\* mutant: the lookup result is not tested; a session is created on every call
MutGetUserStateAlwaysNew(usersMap, heapMap, userID) ==
    [users |-> [id \in (DOMAIN usersMap) \cup {userID} |->
                   IF id = userID THEN Len(heapMap) + 1 ELSE usersMap[id]],
     heap |-> Append(heapMap, NewUserState),
     us |-> Len(heapMap) + 1]

\* getUserState, lines 232-240: the map and the heap afterwards, and the pointer returned
getUserState(usersMap, heapMap, userID) ==
    IF userID \in DOMAIN usersMap
    THEN [users |-> usersMap, heap |-> heapMap, us |-> usersMap[userID]]
    ELSE [users |-> [id \in (DOMAIN usersMap) \cup {userID} |->
                        IF id = userID THEN Len(heapMap) + 1 ELSE usersMap[id]],
          heap |-> Append(heapMap, NewUserState),
          us |-> Len(heapMap) + 1]

\* the body of getUserState and its deferred Unlock
GetUserState(h) ==
    /\ pc[h] = "getUserStateLocked"
    /\ bmu = h
    /\ LET r == getUserState(users, heap, loc[h].msg.from)
       IN  /\ users' = r.users
           /\ heap' = r.heap
           /\ loc' = [loc EXCEPT ![h].us = r.us]
    /\ bmu' = NoOne
    /\ pc' = [pc EXCEPT ![h] = "route"]
    /\ UNCHANGED <<proc, smu, disk, lastSave, nEvents, nKills, sessVars>>

\* the call handleMessage makes on the session for a message (lines 298-316)
CallResults(msg, u) ==
    IF msg.command = "start"
    THEN {[r EXCEPT !.withKeyboard = TRUE] : r \in HandleCommandStart(u)}
    ELSE IF msg.command = "show_data" THEN HandleShowData(u)
    ELSE HandleText(u, msg.text)

\* objects whose fields are each taken from one object of S
FieldMix(S) ==
    {[State |-> a.State, Data |-> b.Data, Choice |-> c.Choice] : a \in S, b \in S, c \in S}

\* lines 298-311: an unknown command, an empty text, or a call on the session,
\* which is made without holding Bot.mu
Route(h) ==
    /\ pc[h] = "route"
    /\ LET msg == loc[h].msg
       IN  IF msg.command \notin {"", "start", "show_data"}
           THEN /\ loc' = [loc EXCEPT ![h].reply = <<Lit("Unknown command.")>>]
                /\ pc' = [pc EXCEPT ![h] = "send"]
           ELSE IF msg.command = "" /\ msg.text = EmptyStr
           THEN /\ loc' = [loc EXCEPT ![h] = NoLocals]
                /\ pc' = [pc EXCEPT ![h] = "idle"]
           ELSE /\ loc' = [loc EXCEPT ![h].seen = heap[loc[h].us]]
                /\ pc' = [pc EXCEPT ![h] = "inHandle"]
    /\ UNCHANGED <<proc, heap, users, bmu, smu, disk, lastSave, nEvents, nKills, sessVars>>

\* the call on the session returns.  When no other goroutine wrote the object
\* meanwhile the call acted on it as a whole; otherwise it raced (a data race):
\* it read the object before or after the other's writes, and each field ends
\* as one of the two wrote it
HandleReturn(h) ==
    /\ pc[h] = "inHandle"
    /\ LET cur == heap[loc[h].us]
           seen == loc[h].seen
       IN  \E base \in {cur, seen} :
              \E r \in CallResults(loc[h].msg, base) :
                 \E u \in (IF cur = seen THEN {r.u} ELSE FieldMix({r.u, cur})) :
                    /\ heap' = [heap EXCEPT ![loc[h].us] = u]
                    /\ loc' = [loc EXCEPT ![h].reply = r.reply,
                                          ![h].withKeyboard = r.withKeyboard,
                                          ![h].removeKeyboard = r.done,
                                          ![h].seen = NewUserState]
    /\ pc' = [pc EXCEPT ![h] = "send"]
    /\ UNCHANGED <<proc, users, bmu, smu, disk, lastSave, nEvents, nKills, sessVars>>

\* mutant: handleMessage returns after the send, without b.save()
MutSendNoSave(h) ==
    /\ pc[h] = "send"
    /\ loc[h].reply # <<>>
    /\ loc' = [loc EXCEPT ![h] = NoLocals]
    /\ pc' = [pc EXCEPT ![h] = "idle"]
    /\ UNCHANGED <<proc, heap, users, bmu, smu, disk, lastSave, nEvents, nKills, sessVars>>

\* lines 322-332: the reply goes to the gateway; a send error is only logged
Send(h) ==
    /\ pc[h] = "send"
    /\ loc[h].reply # <<>>
    /\ loc' = [loc EXCEPT ![h].reply = <<>>,
                          ![h].withKeyboard = FALSE,
                          ![h].removeKeyboard = FALSE]
    /\ pc' = [pc EXCEPT ![h] = "save"]
    /\ UNCHANGED <<proc, heap, users, bmu, smu, disk, lastSave, nEvents, nKills, sessVars>>

\* Bot.save, line 262
SaveLock(h) ==
    /\ pc[h] = "save"
    /\ bmu = NoOne
    /\ bmu' = h
    /\ pc' = [pc EXCEPT ![h] = "storageSave"]
    /\ UNCHANGED <<proc, heap, users, smu, loc, disk, lastSave, nEvents, nKills, sessVars>>

\* what the encoder can read of the object at an address: the object, or, while
\* a call on it is in progress in another goroutine, a mix of its fields before
\* and after that call's writes
Views(a) ==
    FieldMix({heap[a]} \cup
             UNION {{r.u : r \in CallResults(loc[g].msg, heap[a])} :
                       g \in {g \in Handlers : pc[g] = "inHandle" /\ loc[g].us = a}})

\* mutant: Save does not wait for Storage.mu
MutSaveMarshalNoLock(h) ==
    /\ pc[h] = "storageSave"
    /\ smu' = h
    /\ \E coll \in {c \in [DOMAIN users -> UNION {Views(users[id]) : id \in DOMAIN users}] :
                       \A id \in DOMAIN users : c[id] \in Views(users[id])} :
          loc' = [loc EXCEPT ![h].bytes = Marshal(coll)]
    /\ pc' = [pc EXCEPT ![h] = "writeTmp"]
    /\ UNCHANGED <<proc, heap, users, bmu, disk, lastSave, nEvents, nKills, sessVars>>

\* Storage.Save, lines 191-198: lock, then serialize the whole collection
SaveMarshal(h) ==
    /\ pc[h] = "storageSave"
    /\ smu = NoOne
    /\ smu' = h
    /\ \E coll \in {c \in [DOMAIN users -> UNION {Views(users[id]) : id \in DOMAIN users}] :
                       \A id \in DOMAIN users : c[id] \in Views(users[id])} :
          loc' = [loc EXCEPT ![h].bytes = Marshal(coll)]
    /\ pc' = [pc EXCEPT ![h] = "writeTmp"]
    /\ UNCHANGED <<proc, heap, users, bmu, disk, lastSave, nEvents, nKills, sessVars>>

\* os.Rename
RenameFile(d, from, to) ==
    IF from = to THEN d ELSE [d EXCEPT ![to] = d[from], ![from] = Absent]

\* os.WriteFile(tmpPath, b, 0o644) opens the file, truncating it
WriteTmpOpen(h) ==
    /\ pc[h] = "writeTmp"
    /\ disk' = [disk EXCEPT ![TmpPath] = Partial(loc[h].bytes)]
    /\ pc' = [pc EXCEPT ![h] = "writingTmp"]
    /\ UNCHANGED <<proc, heap, users, bmu, smu, loc, lastSave, nEvents, nKills, sessVars>>

\* os.WriteFile wrote all the bytes and closed the file
WriteTmpDone(h) ==
    /\ pc[h] = "writingTmp"
    /\ disk' = [disk EXCEPT ![TmpPath] = Written(loc[h].bytes)]
    /\ pc' = [pc EXCEPT ![h] = "rename"]
    /\ UNCHANGED <<proc, heap, users, bmu, smu, loc, lastSave, nEvents, nKills, sessVars>>

\* os.WriteFile fails, on opening the file or part way through (lines 200-202)
WriteTmpFail(h) ==
    /\ pc[h] \in {"writeTmp", "writingTmp"}
    /\ loc' = [loc EXCEPT ![h].err = TRUE]
    /\ pc' = [pc EXCEPT ![h] = "saveReturn"]
    /\ UNCHANGED <<proc, heap, users, bmu, smu, disk, lastSave, nEvents, nKills, sessVars>>

\* os.Rename(tmpPath, s.path) replaces the snapshot in one step (line 203)
Rename(h) ==
    /\ pc[h] = "rename"
    /\ disk' = RenameFile(disk, TmpPath, "path")
    /\ pc' = [pc EXCEPT ![h] = "saveReturn"]
    /\ UNCHANGED <<proc, heap, users, bmu, smu, loc, lastSave, nEvents, nKills, sessVars>>

\* os.Rename fails and changes nothing
RenameFail(h) ==
    /\ pc[h] = "rename"
    /\ loc' = [loc EXCEPT ![h].err = TRUE]
    /\ pc' = [pc EXCEPT ![h] = "saveReturn"]
    /\ UNCHANGED <<proc, heap, users, bmu, smu, disk, lastSave, nEvents, nKills, sessVars>>

\* mutant: save ends the process on an error (log.Fatalf for log.Printf)
MutSaveReturnFatal(h) ==
    /\ pc[h] = "saveReturn"
    /\ smu = h
    /\ bmu = h
    /\ smu' = NoOne
    /\ bmu' = NoOne
    /\ lastSave' = IF loc[h].err THEN "error" ELSE "ok"
    /\ loc' = [loc EXCEPT ![h] = NoLocals]
    /\ pc' = [pc EXCEPT ![h] = "idle"]
    /\ proc' = IF loc[h].err THEN "fatal" ELSE proc
    /\ UNCHANGED <<heap, users, disk, nEvents, nKills, sessVars>>

\* Save returns (deferred Unlock of Storage.mu), save logs an error and
\* returns (deferred Unlock of Bot.mu), handleMessage returns
SaveReturn(h) ==
    /\ pc[h] = "saveReturn"
    /\ smu = h
    /\ bmu = h
    /\ smu' = NoOne
    /\ bmu' = NoOne
    /\ lastSave' = IF loc[h].err THEN "error" ELSE "ok"
    /\ loc' = [loc EXCEPT ![h] = NoLocals]
    /\ pc' = [pc EXCEPT ![h] = "idle"]
    /\ UNCHANGED <<proc, heap, users, disk, nEvents, nKills, sessVars>>

\* the call on the session assigns into the map u.Data (line 141)
WritesData(msg, u) ==
    /\ msg.command = ""
    /\ msg.text # tDone
    /\ u.State = StateTypingReply
    /\ u.Choice # EmptyStr

\* the call on the session reads, ranges over or assigns into the map u.Data
\* (lines 52-57, 72, 81, 105, 125, 141)
AccessesData(msg, u) ==
    IF msg.command # "" THEN TRUE
    ELSE IF msg.text = tDone THEN TRUE
    ELSE IF u.State = StateTypingChoice THEN TRUE
    ELSE IF u.State = StateTypingReply THEN u.Choice # EmptyStr
    ELSE msg.text \in PresetLabels

\* the session as handler h may have found it when its call began
Bases(h) == {heap[loc[h].us], loc[h].seen}

\* a map of a session is assigned into by one goroutine while another accesses
\* it, in a call on the same session or in the encoder of Save: the Go runtime
\* may detect it and end the process (fatal error: concurrent map writes,
\* concurrent map read and map write, concurrent map iteration and map write)
MapRaceFatal ==
    /\ proc = "running"
    /\ \E h, g \in Handlers :
          /\ h # g
          /\ pc[h] = "inHandle"
          /\ \E u \in Bases(h) : WritesData(loc[h].msg, u)
          /\ \/ pc[g] = "storageSave"
             \/ /\ pc[g] = "inHandle"
                /\ loc[g].us = loc[h].us
                /\ \E u \in Bases(g) : AccessesData(loc[g].msg, u)
    /\ proc' = "fatal"
    /\ heap' = <<>>
    /\ users' = <<>>
    /\ bmu' = NoOne
    /\ smu' = NoOne
    /\ pc' = [h \in Handlers |-> "idle"]
    /\ loc' = [h \in Handlers |-> NoLocals]
    /\ lastSave' = "none"
    /\ UNCHANGED <<disk, nEvents, nKills, sessVars>>

Dispatch(h) == DispatchOf(h, Messages)

DispatchConc(h) == DispatchOf(h, ConcMessages)

\* the steps of handleMessage in goroutine h, once entered
Steps(h) ==
       GetUserStateLock(h)
    \/ GetUserState(h)
    \/ Route(h)
    \/ HandleReturn(h)
    \/ Send(h)
    \/ SaveLock(h)
    \/ SaveMarshal(h)
    \/ WriteTmpOpen(h)
    \/ WriteTmpDone(h)
    \/ WriteTmpFail(h)
    \/ Rename(h)
    \/ RenameFail(h)
    \/ SaveReturn(h)

----------------------------------------------------------------------------
(* Specifications *)

\* the program: Run handles one message at a time
Init == SessInit /\ BotInit

Next == NewBot \/ Kill \/ Dispatch(MainLoop) \/ Steps(MainLoop)

Spec == Init /\ [][Next]_vars

\* handleMessage called from several goroutines of one running process
NextConc == NewBot \/ MapRaceFatal \/ \E h \in Handlers : DispatchConc(h) \/ Steps(h)

SpecConc == Init /\ [][NextConc]_vars

\* store := NewStorage(path) on a path with no file
InitStorage == SessInit /\ BotInit /\ ~disk.path.exists

\* the messages of the fair specification
FairMessages == {Msg(7, "", tAge)}

DispatchFair(h) == DispatchOf(h, FairMessages)

NextFair == NewBot \/ MapRaceFatal \/ \E h \in Handlers : DispatchFair(h) \/ Steps(h)

\* the scheduler runs every goroutine that can run, file operations return,
\* and a goroutine waiting for a sync.Mutex gets it when it is freed again and
\* again (the mutex hands over to a starving waiter)
Fairness ==
    \A h \in Handlers :
        /\ WF_vars(Steps(h))
        /\ SF_vars(GetUserStateLock(h))
        /\ SF_vars(SaveLock(h))
        /\ SF_vars(SaveMarshal(h))

\* handleMessage called from several goroutines, fairly scheduled
SpecFair == InitStorage /\ [][NextFair]_vars /\ Fairness

\* the sessions an earlier run of the bot left in the snapshot: a user who
\* told two facts and ended with "Done", and one who only sent "Done"
ReturningSessions ==
    [id \in UserIds |->
        IF id = 7
        THEN [State |-> StateTerminated,
              Data |-> MapPut(MapPut(NoData, ToLower(tAge), ToLower(tAGE)),
                              ToLower(tBlue), ToLower(tQuoted)),
              Choice |-> EmptyStr]
        ELSE [State |-> StateTerminated, Data |-> NoData, Choice |-> EmptyStr]]

\* the program started again on the snapshot of an earlier run
InitReturning ==
    /\ SessInit
    /\ proc = "down"
    /\ heap = <<>>
    /\ users = <<>>
    /\ bmu = NoOne
    /\ smu = NoOne
    /\ pc = [h \in Handlers |-> "idle"]
    /\ loc = [h \in Handlers |-> NoLocals]
    /\ disk = [path |-> Written(Marshal(ReturningSessions)), tmp |-> Absent]
    /\ lastSave = "none"
    /\ nEvents = 0
    /\ nKills = 0

SpecReturning == InitReturning /\ [][Next]_vars

\* the maps handed to Storage.Save
StorageCollections ==
    {ReturningSessions, [id \in {42} |-> NewUserState], [id \in {} |-> NewUserState]}

\* a goroutine calls store.Save(users) on a map it has filled; the map is not
\* written while a Save that was called has yet to serialize it
StorageSaveCall(h) ==
    /\ proc = "down"
    /\ pc[h] = "idle"
    /\ \A g \in Handlers : pc[g] # "storageSave"
    /\ nEvents < MaxEvents
    /\ nEvents' = nEvents + 1
    /\ \E coll \in StorageCollections :
          LET ids == DOMAIN coll
              addr(id) == Cardinality({j \in ids : j <= id})
          IN  /\ users' = [id \in ids |-> addr(id)]
              /\ heap' = [a \in 1..Cardinality(ids) |-> coll[CHOOSE id \in ids : addr(id) = a]]
    /\ pc' = [pc EXCEPT ![h] = "storageSave"]
    /\ UNCHANGED <<proc, bmu, smu, loc, disk, lastSave, nKills, sessVars>>

\* Save returns to its caller: the deferred Unlock of Storage.mu (line 192)
StorageSaveReturn(h) ==
    /\ proc = "down"
    /\ pc[h] = "saveReturn"
    /\ smu = h
    /\ smu' = NoOne
    /\ lastSave' = IF loc[h].err THEN "error" ELSE "ok"
    /\ loc' = [loc EXCEPT ![h] = NoLocals]
    /\ pc' = [pc EXCEPT ![h] = "idle"]
    /\ UNCHANGED <<proc, heap, users, bmu, disk, nEvents, nKills, sessVars>>

\* a goroutine calls store.Load(): line 167
StorageLoadLock(h) ==
    /\ proc = "down"
    /\ pc[h] = "idle"
    /\ nEvents < MaxEvents
    /\ nEvents' = nEvents + 1
    /\ smu = NoOne
    /\ smu' = h
    /\ pc' = [pc EXCEPT ![h] = "load"]
    /\ UNCHANGED <<proc, heap, users, bmu, loc, disk, lastSave, nKills, sessVars>>

\* Load reads and decodes the file (lines 174-186)
StorageLoadRead(h) ==
    /\ pc[h] = "load"
    /\ loc' = [loc EXCEPT ![h].err = Load(disk.path).err]
    /\ pc' = [pc EXCEPT ![h] = "loadReturn"]
    /\ UNCHANGED <<proc, heap, users, bmu, smu, disk, lastSave, nEvents, nKills, sessVars>>

\* Load returns: the deferred Unlock of Storage.mu (line 168)
StorageLoadReturn(h) ==
    /\ pc[h] = "loadReturn"
    /\ smu = h
    /\ smu' = NoOne
    /\ loc' = [loc EXCEPT ![h] = NoLocals]
    /\ pc' = [pc EXCEPT ![h] = "idle"]
    /\ UNCHANGED <<proc, heap, users, bmu, disk, lastSave, nEvents, nKills, sessVars>>

\* the steps of Storage.Save and Storage.Load in goroutine h
StorageSteps(h) ==
       SaveMarshal(h)
    \/ WriteTmpOpen(h)
    \/ WriteTmpDone(h)
    \/ WriteTmpFail(h)
    \/ Rename(h)
    \/ RenameFail(h)
    \/ StorageSaveReturn(h)
    \/ StorageLoadRead(h)
    \/ StorageLoadReturn(h)

\* a Storage used by several goroutines, with no Bot around it
NextStorage == \E h \in Handlers : StorageSaveCall(h) \/ StorageLoadLock(h) \/ StorageSteps(h)

SpecStorage == InitStorage /\ [][NextStorage]_vars

\* events applied to one session
InitSession == SessInit /\ BotInit /\ disk.path = Absent

SpecSession == InitSession /\ [][SessNext]_vars

\* events applied to one session, texts with blanks around them included
SpecSessionBlank == InitSession /\ [][SessNextBlank]_vars

----------------------------------------------------------------------------
(* Claims *)

\* C1 (SpecSession): after any sequence of greet, show-facts and text events on
\* a fresh session, Choice is non-empty if and only if State is typing_reply.
C1_ChoiceIffTypingReply ==
    (sess.Choice # EmptyStr) <=> (sess.State = StateTypingReply)

\* C2 (Spec): the file at s.path changes only by the rename of a Save, and then
\* it holds all the bytes that Save serialized; at every other step, a kill
\* included, it stays as it was.
C2_SnapshotReplacedWhole ==
    [][\/ disk'.path = disk.path
       \/ \E h \in Handlers :
             /\ pc[h] = "rename"
             /\ smu = h
             /\ pc'[h] = "saveReturn"
             /\ disk'.path = Written(loc[h].bytes)]_vars

\* C2 witness: the process was killed while a Save was writing a new snapshot;
\* the temporary file is partial and the previous snapshot is whole.
C2_Witness ==
    /\ proc = "down"
    /\ nKills > 0
    /\ disk.tmp.exists
    /\ ~disk.tmp.complete
    /\ disk.path.exists
    /\ disk.path.complete
    /\ disk.path.doc # disk.tmp.doc

\* two handlers whose next accesses to the shared collection conflict: calls
\* on the same UserState, or a call on a UserState and the serialization of
\* the collection in Save
Conflict(h, g) ==
    \/ /\ pc[h] = "inHandle"
       /\ pc[g] = "inHandle"
       /\ loc[h].us = loc[g].us
    \/ /\ pc[h] = "inHandle"
       /\ pc[g] = "storageSave"

\* C3 (SpecConc): no handler is inside its call on a session while another
\* handler is inside a call on the same session or is serializing the collection.
C3_MutualExclusion ==
    \A h, g \in Handlers : h # g => ~Conflict(h, g)

\* C4 (SpecSession): HandleText returns done exactly for the text "Done", and
\* then, whatever the state before, State is "", Choice is empty, Data is as
\* before and the markup is RemoveKeyboard.
C4_DoneTerminates ==
    out.op = "text" =>
        /\ out.done <=> (out.text = tDone)
        /\ out.text = tDone =>
              /\ sess.State = StateTerminated
              /\ sess.Choice = EmptyStr
              /\ sess.Data = out.before.Data
              /\ UiHint(out.withKeyboard, out.done) = "RemoveKeyboard"

\* C4 witness: "Done" came in typing_reply with a category pending and a fact stored.
C4_Witness ==
    /\ out.op = "text"
    /\ out.text = tDone
    /\ out.done
    /\ out.before.State = StateTypingReply
    /\ out.before.Choice # EmptyStr
    /\ out.before.Data # NoData
    /\ sess.State = StateTerminated

\* C5 (Spec): loading what Save writes for the collection in memory gives that
\* collection back, and after a Save that succeeded Load of the snapshot does.
C5_SaveLoadRoundTrip ==
    proc = "running" =>
        /\ Load(Written(Marshal(Collection))) = Ok(Collection)
        /\ \A h \in Handlers :
              pc[h] = "saveReturn" /\ ~loc[h].err => Load(disk.path) = Ok(Collection)

\* C5 witness: a Save succeeded on a collection of two users, one with a fact
\* whose value needs escaping, one with a category pending.
C5_Witness ==
    /\ pc[MainLoop] = "saveReturn"
    /\ ~loc[MainLoop].err
    /\ DOMAIN users = UserIds
    /\ \E id \in UserIds : ToLower(tQuoted) \in {Collection[id].Data[k] : k \in DOMAIN Collection[id].Data}
    /\ \E id \in UserIds : Collection[id].State = StateTypingReply /\ Collection[id].Choice # EmptyStr

\* a message whose handling mutates a session: a greet or a non-empty text
Mutating(msg) == msg.command = "start" \/ (msg.command = "" /\ msg.text # EmptyStr)

\* the snapshot holds every session of the collection, but for sessions that
\* are still as NewUserState made them
SnapshotHoldsCollection ==
    LET l == Load(disk.path)
    IN  /\ ~l.err
        /\ DOMAIN l.val \subseteq DOMAIN users
        /\ \A id \in DOMAIN users :
              IF id \in DOMAIN l.val THEN l.val[id] = Collection[id]
              ELSE Collection[id] = NewUserState

Quiescent == proc = "running" /\ \A h \in Handlers : pc[h] = "idle"

\* C6 (Spec): a handler of a mutating message returns only from a Save of the
\* collection as it is then; and whenever no handler runs and the last Save
\* succeeded, the snapshot holds the collection.
C6_SaveAfterEveryMutation ==
    /\ [][\A h \in Handlers :
             (pc[h] # "idle" /\ pc'[h] = "idle" /\ nKills' = nKills /\ Mutating(loc[h].msg))
                => (pc[h] = "saveReturn" /\ loc[h].bytes = Marshal(Collection))]_vars
    /\ [](Quiescent /\ lastSave = "ok" => SnapshotHoldsCollection)

\* C6 witness: no handler runs, the last Save succeeded, and a session that an
\* event changed is in the snapshot.
C6_Witness ==
    /\ Quiescent
    /\ lastSave = "ok"
    /\ \E id \in DOMAIN users :
          /\ Collection[id].State = StateTypingReply
          /\ Load(disk.path).val[id] = Collection[id]

\* C7 (Spec): a failing write or rename changes nothing in memory; the handler
\* then returns, leaving the process running and both locks free; and the
\* rename of a later Save makes the snapshot equal to the collection in memory.
C7_SaveFailureIsNotFatal ==
    [][\A h \in Handlers :
          /\ (pc[h] \in {"writeTmp", "writingTmp", "rename"} /\ pc'[h] = "saveReturn" /\ loc'[h].err)
                => (heap' = heap /\ users' = users /\ proc' = "running")
          /\ (pc[h] = "saveReturn" /\ loc[h].err /\ nKills' = nKills)
                => /\ heap' = heap
                   /\ users' = users
                   /\ proc' = "running"
                   /\ pc'[h] = "idle"
                   /\ bmu' = NoOne
                   /\ smu' = NoOne
          /\ (lastSave = "error" /\ pc[h] = "rename" /\ pc'[h] = "saveReturn" /\ ~loc'[h].err)
                => (loc[h].bytes = Marshal(Collection) /\ Load(disk'.path) = Ok(Collection'))]_vars

\* C7 witness: the Save of an earlier event failed, and the Save of a later
\* event succeeded on a collection that is not empty.
C7_Witness ==
    /\ lastSave = "error"
    /\ pc[MainLoop] = "saveReturn"
    /\ ~loc[MainLoop].err
    /\ nEvents >= 2
    /\ users # <<>>
    /\ Load(disk.path) = Ok(Collection)

\* C8 (Spec): NewBot on a path with no file gives a running Bot with an empty
\* collection, and creates no file.
C8_LoadMissingIsEmpty ==
    [][(proc = "down" /\ proc' # "down" /\ ~disk.path.exists)
          => (proc' = "running" /\ users' = <<>> /\ heap' = <<>> /\ disk' = disk)]_vars

\* C8 witness: the Bot runs on an empty collection and there is no snapshot.
C8_Witness ==
    /\ proc = "running"
    /\ nEvents = 0
    /\ users = <<>>
    /\ ~disk.path.exists
    /\ ~disk.tmp.exists

\* a snapshot that is present and does not parse
Unparsable(file) == file.exists /\ (~file.complete \/ Unmarshal(file.doc).err)

\* C9 (Spec): while the snapshot is present and unparsable Load returns an
\* error, no Bot exists, no message was dispatched, and no Save has touched
\* the files.
C9_CorruptHaltsStartup ==
    Unparsable(disk.path) =>
        /\ Load(disk.path) = Err
        /\ proc \in {"down", "fatal"}
        /\ users = <<>>
        /\ heap = <<>>
        /\ nEvents = 0
        /\ \A h \in Handlers : pc[h] = "idle"
        /\ disk = [path |-> Corrupt, tmp |-> Absent]

\* C9 witness: NewBot failed on the corrupt snapshot.
C9_Witness ==
    /\ proc = "fatal"
    /\ Unparsable(disk.path)

\* C10 (SpecSession): two HandleShowData calls in a row return the same reply,
\* and each leaves the session as it was.
C10_ShowDataIdempotent ==
    [][(out.op = "show_data" /\ out'.op = "show_data")
          => (out'.reply = out.reply /\ sess' = sess)]_vars

\* C11 (SpecSession): HandleText with a text other than "Done" on a session in
\* typing_reply with a category pending stores the lower-cased text under that
\* category, leaves every other fact as it was, clears Choice, moves to
\* choosing, and returns ShowKeyboard with done = FALSE.
C11_ValueStored ==
    (/\ out.op = "text"
     /\ out.text # tDone
     /\ out.before.State = StateTypingReply
     /\ out.before.Choice # EmptyStr)
    => /\ DOMAIN sess.Data = DOMAIN out.before.Data \cup {out.before.Choice}
       /\ sess.Data[out.before.Choice] = ToLower(out.text)
       /\ \A k \in DOMAIN out.before.Data :
             k # out.before.Choice => sess.Data[k] = out.before.Data[k]
       /\ sess.Choice = EmptyStr
       /\ sess.State = StateChoosing
       /\ UiHint(out.withKeyboard, out.done) = "ShowKeyboard"
       /\ ~out.done

\* C11 witness: "AGE" was sent as the value of a pending category while another
\* fact was stored; the value is held in lower case and the other fact is kept.
C11_Witness ==
    /\ out.op = "text"
    /\ out.text = tAGE
    /\ out.before.State = StateTypingReply
    /\ out.before.Choice # EmptyStr
    /\ \E k \in DOMAIN out.before.Data : k # out.before.Choice
    /\ sess.Data[out.before.Choice] = <<"a","g","e">>
    /\ sess.State = StateChoosing

\* the texts substituted into a reply
Listed(reply) == {reply[i].txt : i \in {j \in 1..Len(reply) : reply[j].lit = ""}}

\* C12 (SpecReturning): HandleCommandStart, from any state, leaves the session
\* in choosing with its facts as they were, registered as before, and its reply
\* names exactly the categories of those facts, each once; and no step of the
\* running bot removes a session that "Done" terminated or changes its facts.
C12_GreetKeepsFacts ==
    [][/\ \A h \in Handlers :
             (pc[h] = "inHandle" /\ loc[h].msg.command = "start" /\ pc'[h] = "send")
                => /\ users' = users
                   /\ heap'[loc[h].us].State = StateChoosing
                   /\ heap'[loc[h].us].Data = heap[loc[h].us].Data
                   /\ Listed(loc'[h].reply) = DOMAIN heap[loc[h].us].Data
                   /\ Cardinality({j \in 1..Len(loc'[h].reply) : loc'[h].reply[j].lit = ""})
                         = Cardinality(DOMAIN heap[loc[h].us].Data)
       /\ (proc = "running" /\ proc' = "running")
             => \A id \in DOMAIN users :
                   heap[users[id]].State = StateTerminated
                      => /\ id \in DOMAIN users'
                         /\ heap'[users'[id]].Data = heap[users[id]].Data]_vars

\* C12 witness: the first message after the restart is the greet of the user
\* whose session the snapshot holds as terminated; the session is in choosing
\* with both facts and the reply names both categories.
C12_Witness ==
    /\ pc[MainLoop] = "send"
    /\ loc[MainLoop].msg.command = "start"
    /\ nEvents = 1
    /\ heap[loc[MainLoop].us].State = StateChoosing
    /\ heap[loc[MainLoop].us].Data = ReturningSessions[7].Data
    /\ Listed(loc[MainLoop].reply) = {ToLower(tAge), ToLower(tBlue)}

\* C13 (Spec): while a handler runs on a message that is not a command and has
\* an empty text, no reply is sent, no Save is started or file written, and
\* the collection stays as it was: the same users, the same sessions.
C13_EmptyTextIgnored ==
    [][\A h \in Handlers :
          (/\ pc[h] # "idle"
           /\ loc[h].msg.from # NoFrom
           /\ loc[h].msg.command = ""
           /\ loc[h].msg.text = EmptyStr
           /\ nKills' = nKills)
          => /\ pc'[h] \in {"getUserStateLocked", "route", "idle"}
             /\ disk' = disk
             /\ lastSave' = lastSave
             /\ users' = users
             /\ heap' = heap]_vars

\* handler h is between the Lock and the Unlock of a Save
InSave(h) == pc[h] \in {"writeTmp", "writingTmp", "rename", "saveReturn"}

\* handler h is between the Lock and the Unlock of a Load
InLoad(h) == pc[h] \in {"load", "loadReturn"}

\* C14 (SpecStorage): no two goroutines are inside Save or Load at once; the
\* temporary file a Save is writing or about to rename holds that Save's own
\* bytes; after its rename the snapshot holds them; and a Load, which then
\* never runs between the steps of a Save, never fails on a half-written file.
C14_SaveSerialized ==
    /\ \A h, g \in Handlers :
          h # g => ~((InSave(h) \/ InLoad(h)) /\ (InSave(g) \/ InLoad(g)))
    /\ \A h \in Handlers :
          /\ pc[h] = "writingTmp" => disk.tmp = Partial(loc[h].bytes)
          /\ pc[h] = "rename" => disk.tmp = Written(loc[h].bytes)
          /\ (pc[h] = "saveReturn" /\ ~loc[h].err)
                => (disk.path = Written(loc[h].bytes) /\ ~disk.tmp.exists)
          /\ pc[h] = "loadReturn" => ~loc[h].err

\* C14 witness: one goroutine is writing the temporary file of its Save while
\* another has called Save with a different map and waits; a snapshot exists.
C14_Witness ==
    \E h, g \in Handlers :
        /\ pc[h] = "writingTmp"
        /\ pc[g] = "storageSave"
        /\ disk.path.exists
        /\ loc[h].bytes # Marshal(Collection)

\* handler h has its session from getUserState
HasSession(h) == pc[h] \notin {"idle", "getUserState", "getUserStateLocked"}

\* C15 (SpecConc): getUserState returns the registered session of a known id
\* and changes nothing; for an unknown id it allocates one session equal to
\* NewUserState, registers it and returns it, leaving every other entry and
\* object alone; and under every interleaving each handler holds the session
\* registered for its user, one session exists per registered user, and no two
\* users share one.
C15_OneSessionPerUser ==
    /\ [][\A h \in Handlers :
             (pc[h] = "getUserStateLocked" /\ pc'[h] = "route")
                => IF loc[h].msg.from \in DOMAIN users
                   THEN /\ users' = users
                        /\ heap' = heap
                        /\ loc'[h].us = users[loc[h].msg.from]
                   ELSE /\ DOMAIN users' = DOMAIN users \cup {loc[h].msg.from}
                        /\ \A id \in DOMAIN users : users'[id] = users[id]
                        /\ loc'[h].us = users'[loc[h].msg.from]
                        /\ loc'[h].us \notin DOMAIN heap
                        /\ Len(heap') = Len(heap) + 1
                        /\ heap'[loc'[h].us] = NewUserState
                        /\ \A a \in DOMAIN heap : heap'[a] = heap[a]]_vars
    /\ [](/\ \A h \in Handlers :
               HasSession(h) => /\ loc[h].msg.from \in DOMAIN users
                                /\ loc[h].us = users[loc[h].msg.from]
          /\ Len(heap) = Cardinality(DOMAIN users)
          /\ \A i, j \in DOMAIN users : users[i] = users[j] => i = j)

\* C15 witness: two handlers run at once for the same user, who was unknown
\* when the bot started; both hold the one session created for that user.
C15_Witness ==
    /\ HasSession("h1")
    /\ HasSession("h2")
    /\ loc["h1"].msg.from = loc["h2"].msg.from
    /\ loc["h1"].us = loc["h2"].us
    /\ nEvents = 2
    /\ Len(heap) = 1

\* C16 (SpecSession): a preset label whose lower-cased name has a value, sent
\* in choosing, leaves the session in choosing with its facts as they were;
\* the same label sent in typing_choice moves it to typing_reply with Choice
\* set to the lower-cased name; and a preset label without a value, sent in
\* choosing, moves it to typing_reply with Choice set to the lower-cased label.
C16_KnownPresetStaysInChoosing ==
    (out.op = "text" /\ out.text \in PresetLabels)
    => /\ (out.before.State = StateChoosing /\ ToLower(out.text) \in DOMAIN out.before.Data)
             => /\ sess.State = StateChoosing
                /\ sess.Data = out.before.Data
       /\ (out.before.State = StateTypingChoice /\ ToLower(out.text) \in DOMAIN out.before.Data)
             => /\ sess.State = StateTypingReply
                /\ sess.Choice = ToLower(out.text)
                /\ sess.Data = out.before.Data
       /\ (out.before.State = StateChoosing /\ ToLower(out.text) \notin DOMAIN out.before.Data)
             => /\ sess.State = StateTypingReply
                /\ sess.Choice = ToLower(out.text)
                /\ sess.Data = out.before.Data

\* C16 witness: "Age" was sent in choosing while "age" had a value, and the
\* session is still in choosing.
C16_Witness ==
    /\ out.op = "text"
    /\ out.text = tAge
    /\ out.before.State = StateChoosing
    /\ <<"a","g","e">> \in DOMAIN out.before.Data
    /\ sess.State = StateChoosing

\* C17 (SpecSession): no two keys of Data are equal up to letter case; "AGE"
\* sent as a custom category makes "age" the pending category; and a value
\* sent for a pending category that has one replaces it, adding no key.
C17_KeysFoldCase ==
    /\ \A k1, k2 \in DOMAIN sess.Data : ToLower(k1) = ToLower(k2) => k1 = k2
    /\ (out.op = "text" /\ out.text = tAGE /\ out.before.State = StateTypingChoice)
          => sess.Choice = <<"a","g","e">>
    /\ (/\ out.op = "text"
        /\ out.text # tDone
        /\ out.before.State = StateTypingReply
        /\ out.before.Choice \in DOMAIN out.before.Data)
          => /\ DOMAIN sess.Data = DOMAIN out.before.Data
             /\ sess.Data[out.before.Choice] = ToLower(out.text)

\* C17 witness: "age" had a value recorded, "AGE" was sent as a custom
\* category, and the session waits for the value of "age".
C17_Witness ==
    /\ out.op = "text"
    /\ out.text = tAGE
    /\ out.before.State = StateTypingChoice
    /\ <<"a","g","e">> \in DOMAIN out.before.Data
    /\ sess.State = StateTypingReply
    /\ sess.Choice = <<"a","g","e">>
    /\ DOMAIN sess.Data = DOMAIN out.before.Data

\* a string with no blank at either end
IsTrimmed(s) == s = <<>> \/ (s[1] # " " /\ s[Len(s)] # " ")

\* C18 (SpecSessionBlank): every key and every value of Data is in lower case and
\* has no blank at either end.
C18_FactsLowerTrimmed ==
    \A k \in DOMAIN sess.Data :
        /\ k = ToLower(k)
        /\ IsTrimmed(k)
        /\ sess.Data[k] = ToLower(sess.Data[k])
        /\ IsTrimmed(sess.Data[k])

\* C19 (SpecFair): a handler that holds Storage.mu holds Bot.mu, and holds
\* neither lock outside getUserState and save, so not while it sends; an event
\* ends only by handleMessage returning, with the process running; and every
\* handler that has been given a message returns.
C19_NoHandlerBlocksForever ==
    /\ [](\A h \in Handlers :
             /\ smu = h => bmu = h
             /\ pc[h] \in {"idle", "getUserState", "route", "inHandle", "send", "save"}
                   => (bmu # h /\ smu # h))
    /\ [][\A h \in Handlers :
             (pc[h] # "idle" /\ pc'[h] = "idle")
                => (pc[h] \in {"route", "saveReturn"} /\ proc' = "running")]_vars
    /\ \A h \in Handlers : (pc[h] # "idle") ~> (pc[h] = "idle")

\* C20 (SpecReturning): a text other than "Done" handled on a session whose
\* State is "", whether "Done" left it so in this run or the snapshot held it
\* so, gives the session, the reply and the markup that HandleText gives on
\* the same session in choosing; the session is then no longer terminated.
C20_TerminatedActsAsChoosing ==
    [][\A h \in Handlers :
          (/\ pc[h] = "inHandle"
           /\ pc'[h] = "send"
           /\ loc[h].msg.command = ""
           /\ loc[h].msg.text # tDone
           /\ heap[loc[h].us].State = StateTerminated)
          => /\ \E r \in HandleText([heap[loc[h].us] EXCEPT !.State = StateChoosing],
                                    loc[h].msg.text) :
                   /\ heap'[loc[h].us] = r.u
                   /\ loc'[h].reply = r.reply
                   /\ UiHint(loc'[h].withKeyboard, loc'[h].removeKeyboard)
                         = UiHint(r.withKeyboard, r.done)
             /\ heap'[loc[h].us].State \in {StateChoosing, StateTypingReply}]_vars

\* C20 witness: the first message after the restart is "Age" from the user
\* whose session the snapshot holds as terminated with no facts; the session
\* is in typing_reply with "age" pending.
C20_Witness ==
    /\ pc[MainLoop] = "send"
    /\ nEvents = 1
    /\ loc[MainLoop].msg = Msg(42, "", tAge)
    /\ ReturningSessions[42].State = StateTerminated
    /\ heap[loc[MainLoop].us].State = StateTypingReply
    /\ heap[loc[MainLoop].us].Choice = <<"a","g","e">>

====
